---- MODULE Spec2Model ----
(***************************************************************************)
(* Client-side cart synchronisation of the 2M perfume store front end.     *)
(*                                                                         *)
(* A browser window of the origin loads one of three documents: the index *)
(* page (Products + Cart indicator), the checkout page (Checkout + Cart    *)
(* indicator) or the contact page (Contact + Cart indicator).              *)
(* All windows of the origin share localStorage; the                       *)
(* "cartUpdated" event is dispatched on the window object and reaches      *)
(* only the listeners of the dispatching window.  The model follows one    *)
(* window in full; the other tabs of the origin run the same handlers on   *)
(* a document they have just loaded, and are seen through the slot only.   *)
(*                                                                         *)
(* Array positions are 1-based here; position i is index i-1 of the code.  *)
(***************************************************************************)
EXTENDS Integers, Sequences, FiniteSets, TLC

\* Bounds of the model.
MaxCart == 2
MaxQty == 2
MaxNotes == 1
MaxInflight == 2

\* Program constants.
Shipping == 20

-----------------------------------------------------------------------------
(* JavaScript values of a line's price and quantity fields, in memory.     *)

Undefined == [t |-> "undefined", n |-> 0]
Null == [t |-> "null", n |-> 0]
NaN == [t |-> "NaN", n |-> 0]
Num(n) == [t |-> "number", n |-> n]
\* A string holding the decimal numeral of n, such as "100".
Str(n) == [t |-> "string", n |-> n]
\* A string that is no numeral, such as "abc".
Text == [t |-> "text", n |-> 0]

(* The same fields inside the JSON text held by localStorage.              *)
JAbsent == [t |-> "json:absent", n |-> 0]
JNull == [t |-> "json:null", n |-> 0]
JNum(n) == [t |-> "json:number", n |-> n]
JStr(n) == [t |-> "json:string", n |-> n]
JText == [t |-> "json:text", n |-> 0]

\* An element of the cart array in memory: an object, or null.
Line(name, price, quantity) ==
  [shape |-> "object", name |-> name, price |-> price, quantity |-> quantity]
NullLine == [shape |-> "null", name |-> "", price |-> Undefined, quantity |-> Undefined]

\* ToNumber of a field value; NaN is kept as NaN.
ToNumber(v) ==
  CASE v.t = "number" -> v
    [] v.t = "string" -> Num(v.n)
    [] v.t = "null" -> Num(0)
    [] OTHER -> NaN

\* v || d of JavaScript: d when v is falsy (undefined, null, NaN, 0, "").
OrElse(v, d) ==
  IF v.t \in {"undefined", "null", "NaN"} \/ (v.t = "number" /\ v.n = 0) THEN d ELSE v

-----------------------------------------------------------------------------
(* JSON.stringify and JSON.parse on carts.                                 *)

\* A stringify that writes numbers as numerals in quotes.
stringifyValue_quoted(v) ==
  CASE v.t = "undefined" -> JAbsent
    [] v.t = "null" -> JNull
    [] v.t = "NaN" -> JNull
    [] v.t = "number" -> JStr(v.n)
    [] v.t = "string" -> JStr(v.n)
    [] OTHER -> JText

\* JSON.stringify of one field: an undefined property is left out, NaN is
\* written as null.
stringifyValue(v) ==
  CASE v.t = "undefined" -> JAbsent
    [] v.t = "null" -> JNull
    [] v.t = "NaN" -> JNull
    [] v.t = "number" -> JNum(v.n)
    [] v.t = "string" -> JStr(v.n)
    [] OTHER -> JText

parseValue(j) ==
  CASE j.t = "json:absent" -> Undefined
    [] j.t = "json:null" -> Null
    [] j.t = "json:number" -> Num(j.n)
    [] j.t = "json:string" -> Str(j.n)
    [] OTHER -> Text

stringifyLine(l) ==
  IF l.shape = "null"
    THEN [shape |-> "null", name |-> "", price |-> JAbsent, quantity |-> JAbsent]
    ELSE [shape |-> "object", name |-> l.name,
          price |-> stringifyValue(l.price), quantity |-> stringifyValue(l.quantity)]

parseLine(e) ==
  IF e.shape = "null"
    THEN NullLine
    ELSE Line(e.name, parseValue(e.price), parseValue(e.quantity))

\* The content of the "cart" slot of localStorage.
Absent == [kind |-> "absent", items |-> <<>>]
EmptyString == [kind |-> "empty", items |-> <<>>]
Unparseable == [kind |-> "unparseable", items |-> <<>>]
NonArray == [kind |-> "nonarray", items |-> <<>>]
ArrayText(items) == [kind |-> "array", items |-> items]

JSONstringify(cart) == ArrayText([i \in 1..Len(cart) |-> stringifyLine(cart[i])])

\* JSON.parse: throws on text that is no JSON, otherwise the value.
JSONparse(raw) ==
  CASE raw.kind = "array" ->
         [throws |-> FALSE, isArray |-> TRUE,
          value |-> [i \in 1..Len(raw.items) |-> parseLine(raw.items[i])]]
    [] raw.kind = "nonarray" -> [throws |-> FALSE, isArray |-> FALSE, value |-> <<>>]
    [] OTHER -> [throws |-> TRUE, isArray |-> FALSE, value |-> <<>>]

\* if (savedCart): null and "" are falsy.
Truthy(raw) == raw.kind \notin {"absent", "empty"}

-----------------------------------------------------------------------------
(* Reading the cart, one definition per mount point.                       *)

\* Checkout: parsed array, or [] (with an error notification when the text
\* does not parse).
loadCartFromStorage(raw) ==
  IF Truthy(raw)
    THEN LET p == JSONparse(raw) IN
         IF p.throws
           THEN [cart |-> <<>>, showError |-> TRUE]
           ELSE [cart |-> IF p.isArray THEN p.value ELSE <<>>, showError |-> FALSE]
    ELSE [cart |-> <<>>, showError |-> FALSE]

\* Cart indicator: the same, without a notification.
Cart_loadCartFromStorage(raw) ==
  IF Truthy(raw)
    THEN LET p == JSONparse(raw) IN
         IF p.throws THEN <<>> ELSE IF p.isArray THEN p.value ELSE <<>>
    ELSE <<>>

\* A mount effect that keeps the object lines of the stored array only.
Products_loadEffect_objects(raw, cart) ==
  IF Truthy(raw)
    THEN LET p == JSONparse(raw) IN
         IF p.throws THEN <<>>
         ELSE IF p.isArray THEN SelectSeq(p.value, LAMBDA l : l.shape = "object")
         ELSE <<>>
    ELSE cart

\* Products: the mount effect; with nothing stored the state keeps its value.
Products_loadEffect(raw, cart) ==
  IF Truthy(raw)
    THEN LET p == JSONparse(raw) IN
         IF p.throws THEN <<>> ELSE IF p.isArray THEN p.value ELSE <<>>
    ELSE cart

-----------------------------------------------------------------------------
(* Writing the cart.  An effect names the new slot content, whether        *)
(* "cartUpdated" was dispatched, the slot content the listeners find when  *)
(* the event reaches them, and whether the other keys were removed.        *)

\* A save effect that dispatches before it stores.
Products_saveEffect_early(cart, raw) ==
  IF Len(cart) > 0
    THEN [storage |-> JSONstringify(cart), dispatched |-> TRUE, seen |-> raw,
          clears |-> FALSE]
    ELSE [storage |-> raw, dispatched |-> FALSE, seen |-> raw, clears |-> FALSE]

\* Products: the effect on [cart]; an empty cart is neither stored nor announced.
Products_saveEffect(cart, raw) ==
  IF Len(cart) > 0
    THEN [storage |-> JSONstringify(cart), dispatched |-> TRUE,
          seen |-> JSONstringify(cart), clears |-> FALSE]
    ELSE [storage |-> raw, dispatched |-> FALSE, seen |-> raw, clears |-> FALSE]

\* A save that stores and dispatches nothing.
saveCartToStorage_silent(updatedCart) ==
  [storage |-> JSONstringify(updatedCart), dispatched |-> FALSE,
   seen |-> JSONstringify(updatedCart), clears |-> FALSE]

\* Checkout: setItem, then dispatchEvent.
saveCartToStorage(updatedCart) ==
  [storage |-> JSONstringify(updatedCart), dispatched |-> TRUE,
   seen |-> JSONstringify(updatedCart), clears |-> FALSE]

\* An accepted order that clears the storage and dispatches nothing.
orderCleared_silent ==
  [storage |-> Absent, dispatched |-> FALSE, seen |-> Absent, clears |-> TRUE]

\* Checkout, order accepted: localStorage.clear(), then dispatchEvent.
orderCleared ==
  [storage |-> Absent, dispatched |-> TRUE, seen |-> Absent, clears |-> TRUE]

-----------------------------------------------------------------------------
(* The cart operations of the checkout, on the cart held in its state.     *)

\* cart.filter((_, i) => i !== index)
removeLine(cart, index) ==
  LET keep == {j \in 1..Len(cart) : j # index} IN
  [k \in 1..Cardinality(keep) |->
     cart[CHOOSE j \in keep : Cardinality({m \in keep : m < j}) = k - 1]]

\* x++ and x-- on a field value.
Increment(v) == LET x == ToNumber(v) IN IF x.t = "NaN" THEN NaN ELSE Num(x.n + 1)
Decrement(v) == LET x == ToNumber(v) IN IF x.t = "NaN" THEN NaN ELSE Num(x.n - 1)

\* v < 1; false for NaN.
LessThanOne(v) == LET x == ToNumber(v) IN x.t = "number" /\ x.n < 1

increaseLine(cart, index) == [cart EXCEPT ![index].quantity = Increment(@)]

\* A decrease that removes the line only below zero.
decreaseLine_belowZero(cart, index) ==
  LET updatedCart == [cart EXCEPT ![index].quantity = Decrement(@)] IN
  IF LessThanOne(Increment(updatedCart[index].quantity))
    THEN [cart |-> removeLine(updatedCart, index), removed |-> TRUE]
    ELSE [cart |-> updatedCart, removed |-> FALSE]

\* The line object is shared with the state, so remove(index) filters the
\* cart whose line already carries the decremented quantity.
decreaseLine(cart, index) ==
  LET updatedCart == [cart EXCEPT ![index].quantity = Decrement(@)] IN
  IF LessThanOne(updatedCart[index].quantity)
    THEN [cart |-> removeLine(updatedCart, index), removed |-> TRUE]
    ELSE [cart |-> updatedCart, removed |-> FALSE]

\* The subtotal loop of the checkout's render.
RECURSIVE subtotalFrom(_, _)
subtotalFrom(cart, i) ==
  IF i > Len(cart) THEN 0
  ELSE OrElse(ToNumber(cart[i].price), Num(0)).n * OrElse(cart[i].quantity, Num(1)).n
       + subtotalFrom(cart, i + 1)
\* A subtotal that counts the first line twice.
subtotal_skewed(cart) ==
  subtotalFrom(cart, 1) + (IF Len(cart) > 0 THEN subtotalFrom(<<cart[1]>>, 1) ELSE 0)

subtotal(cart) == subtotalFrom(cart, 1)
total(cart) == subtotal(cart) + Shipping

\* Reading a property of null throws in the render (cart[i].price).
renderThrows(cart) == \E i \in 1..Len(cart) : cart[i].shape = "null"

-----------------------------------------------------------------------------
(* The billing form.                                                       *)

trim(v) == IF v = " " THEN "" ELSE v
\* /^[+]?[\d\s\-\(\)]+$/ on the values a phone field takes here.
phoneRegexTest(v) == v \in {" ", "0100"}

EmptyForm ==
  [fName |-> "", lName |-> "", adress |-> "", phone |-> "", building |-> "", apart |-> ""]
GoodForm ==
  [fName |-> "Ann", lName |-> "Lee", adress |-> "Street", phone |-> "0100",
   building |-> "7", apart |-> "3"]
Forms ==
  {EmptyForm, GoodForm, [GoodForm EXCEPT !.fName = " "],
   [GoodForm EXCEPT !.phone = "abc"]}

Missing(cond, name) == IF cond THEN <<name>> ELSE <<>>

\* A validation that does not look at the cart.
validateCheckoutForm_anyCart(f, cart) ==
  LET missingFields ==
        Missing(trim(f.fName) = "", "First Name") \o
        Missing(trim(f.lName) = "", "Last Name") \o
        Missing(trim(f.adress) = "", "Address") \o
        Missing(trim(f.phone) = "", "Phone Number") \o
        Missing(trim(f.building) = "", "Building Number") \o
        Missing(trim(f.apart) = "", "Apartment Number")
  IN
  IF trim(f.phone) # "" /\ ~phoneRegexTest(f.phone)
    THEN [isValid |-> FALSE, missingFields |-> <<>>, error |-> "phone"]
  ELSE IF Len(missingFields) > 0
    THEN [isValid |-> FALSE, missingFields |-> missingFields, error |-> ""]
  ELSE [isValid |-> TRUE, missingFields |-> <<>>, error |-> ""]

validateCheckoutForm(f, cart) ==
  LET missingFields ==
        Missing(trim(f.fName) = "", "First Name") \o
        Missing(trim(f.lName) = "", "Last Name") \o
        Missing(trim(f.adress) = "", "Address") \o
        Missing(trim(f.phone) = "", "Phone Number") \o
        Missing(trim(f.building) = "", "Building Number") \o
        Missing(trim(f.apart) = "", "Apartment Number")
  IN
  IF trim(f.phone) # "" /\ ~phoneRegexTest(f.phone)
    THEN [isValid |-> FALSE, missingFields |-> <<>>, error |-> "phone"]
  ELSE IF Len(cart) = 0
    THEN [isValid |-> FALSE, missingFields |-> <<>>, error |-> "empty cart"]
  ELSE IF Len(missingFields) > 0
    THEN [isValid |-> FALSE, missingFields |-> missingFields, error |-> ""]
  ELSE [isValid |-> TRUE, missingFields |-> <<>>, error |-> ""]

\* The notification order() shows for a form that fails validation.
validationNotice(v) ==
  IF Len(v.missingFields) > 0
    THEN [type |-> "warning", text |-> "missing fields", fields |-> v.missingFields]
    ELSE [type |-> "error", text |-> v.error, fields |-> <<>>]

Notice(type, text) == [type |-> type, text |-> text, fields |-> <<>>]
NoNotice == Notice("none", "")

\* addNotification: the entry appended to the list.  The list of the model
\* keeps the type of each entry; the message of the entry a handler appended
\* last is kept in lastOp.notice.
enqueue(list, n) == Append(list, [type |-> n.type])

-----------------------------------------------------------------------------
(* useNotifications and the Notification components it renders.  Time      *)
(* advances in ticks; a duration is a number of ticks.                     *)

\* Bounds of the scheduler.
MaxToasts == 2
MaxIds == MaxToasts + 1
Durations == {1, 2}
ToastTypes == {"success", "error"}

\* An entry is followed for one tick past the longest duration.
MaxAge == (CHOOSE d \in Durations : \A e \in Durations : e <= d) + 1

\* The numbers of handleClose timeouts that wait for one identifier.
Closings == {0, 1, 2}

\* The timer of the entry has fired, or was cleared.
NoTimer == 0 - 1

\* An entry of the notifications array, with the time since addNotification
\* (age) and the time left on the setTimeout of its mounted component.
Toast(id, type, duration) ==
  [id |-> id, type |-> type, duration |-> duration, age |-> 0, left |-> duration]

\* The owner renders <NotificationContainer />, a function created by each
\* call of useNotifications: every render of the owner unmounts the
\* Notification components and mounts new ones, whose effect starts the
\* timer over.
Remounted(list) == [i \in 1..Len(list) |-> [list[i] EXCEPT !.left = list[i].duration]]

\* An addNotification that puts the new entry first.
addNotification_first(list, id, type, duration) ==
  [notifications |-> <<Toast(id, type, duration)>> \o list, returned |-> Undefined]

\* addNotification: the new array, and the value the function returns.
addNotification(list, id, type, duration) ==
  [notifications |-> Append(list, Toast(id, type, duration)), returned |-> Undefined]

\* A removal that takes the first entry when the identifier is not there.
Hook_removeNotification_orFirst(list, id) ==
  IF \E i \in 1..Len(list) : list[i].id = id
    THEN SelectSeq(list, LAMBDA n : n.id # id)
    ELSE SubSeq(list, 2, Len(list))

\* removeNotification: prev.filter(notification => notification.id !== id)
Hook_removeNotification(list, id) == SelectSeq(list, LAMBDA n : n.id # id)

\* last: history, the function of the hook that ran last.
NoLast == [op |-> "", id |-> 0, found |-> FALSE, returned |-> Undefined]
NoScheduler ==
  [notifications |-> <<>>, closing |-> [i \in 1..MaxIds |-> 0], nextId |-> 1,
   last |-> NoLast]

\* A new document: the entries and the pending timeouts are gone.
Unloaded(s) == [NoScheduler EXCEPT !.nextId = s.nextId]

-----------------------------------------------------------------------------
(* The listeners of "cartUpdated" on the window.  The effect of a mounted   *)
(* Checkout or Cart registers its handleCartUpdate; the cleanup the effect  *)
(* returns runs when React takes the tree of the component down.           *)

Checkout_subscribe(listeners) == listeners \cup {"Checkout"}
Cart_subscribe(listeners) == listeners \cup {"Cart"}

\* A cleanup of the checkout that leaves its handler registered.
Checkout_cleanup_kept(listeners) == listeners

Checkout_cleanup(listeners) == listeners \ {"Checkout"}
Cart_cleanup(listeners) == listeners \ {"Cart"}

\* No document: nothing is mounted and nothing listens.
NoMounts == [live |-> {}, listeners |-> {}]

-----------------------------------------------------------------------------
(* The state.                                                              *)

VARIABLES
  storage,    \* the "cart" slot of localStorage, shared with the other tabs
  page,       \* the document of the window: "closed", "index", "checkout"
              \* or "contact"
  root,       \* the cart state of the root component (Products or Checkout)
  badge,      \* the cart state of the Cart indicator
  form,       \* the fields of the form of the root component
  isLoading,  \* the submitting flag of the root component
  inflight,   \* the number of axios.post calls of the root component that
              \* await their answer
  crashed,    \* the render of the root component threw
  notes,      \* the notifications of the root component
  redirect,   \* while a setTimeout of buyNow is pending: the cart that the
              \* first such buyNow set; <<>> when none is pending
  lastOp,     \* history: the handler that ran last, and what it did
  scheduler,  \* useNotifications of the root component with the identifiers
              \* and the timers of its entries (notes keeps their types)
  mounts,     \* live: the components "Checkout" and "Cart" whose tree is
              \* mounted; listeners: those whose handleCartUpdate is
              \* registered for "cartUpdated" on the window
  otherKeys   \* the keys of localStorage other than "cart" that hold a value

vars ==
  <<storage, page, root, badge, form, isLoading, inflight, crashed, notes,
    redirect, lastOp, scheduler, mounts, otherKeys>>

\* The products the catalog request returns: the handlers copy them as they are.
Catalog == {Line("Rose", Str(100), Undefined), Line("Musk", Num(50), Num(1))}

Outcomes == {"status200", "statusOther", "errorResponse", "errorRequest", "errorOther"}

\* tab: "this" for the window followed, "other" for another tab.
\* heard: the components whose handleCartUpdate the dispatch invoked.
\* before: the cart a read of the slot yielded when the handler started;
\* arg: the cart the handler handed to the store.
Op(op, tab) ==
  [op |-> op, tab |-> tab, index |-> 0, q |-> Undefined, line |-> NullLine,
   before |-> Cart_loadCartFromStorage(storage), arg |-> <<>>,
   saved |-> FALSE, dispatched |-> FALSE, heard |-> {}, outcome |-> "",
   notice |-> NoNotice]

Init ==
  /\ storage = Absent
  /\ page = "closed"
  /\ root = <<>>
  /\ badge = <<>>
  /\ form = EmptyForm
  /\ isLoading = FALSE
  /\ inflight = 0
  /\ crashed = FALSE
  /\ notes = <<>>
  /\ redirect = <<>>
  /\ lastOp = [Op("init", "this") EXCEPT !.before = <<>>]
  /\ scheduler = NoScheduler
  /\ mounts = NoMounts
  /\ otherKeys = {}

-----------------------------------------------------------------------------
(* Loading a document: the previous document of the window is discarded,   *)
(* the roots are created and their mount effects run.                      *)

\* index page: Products (load effect, then the save effect on the loaded
\* cart) and the Cart indicator.
LoadIndexTo(op) ==
  LET cart == Products_loadEffect(storage, <<>>)
      first == Products_saveEffect(<<>>, storage)
      eff == Products_saveEffect(cart, first.storage)
  IN
  /\ storage' = eff.storage
  /\ page' = "index"
  /\ root' = cart
  /\ badge' = Cart_loadCartFromStorage(eff.storage)
  /\ form' = EmptyForm
  /\ isLoading' = FALSE
  /\ inflight' = 0
  /\ crashed' = FALSE
  /\ notes' = <<>>
  /\ redirect' = <<>>
  /\ lastOp' = [Op(op, "this") EXCEPT !.arg = cart, !.saved = eff.dispatched,
                  !.dispatched = eff.dispatched,
                  !.heard = IF eff.dispatched THEN Cart_subscribe({}) ELSE {}]
  /\ scheduler' = Unloaded(scheduler)
  /\ mounts' = [live |-> {"Cart"}, listeners |-> Cart_subscribe({})]
  /\ UNCHANGED otherKeys

\* checkout page: Checkout (load, subscribe, render) and the Cart indicator.
LoadCheckoutTo(op) ==
  LET loaded == loadCartFromStorage(storage)
      throws == renderThrows(loaded.cart)
  IN
  /\ page' = "checkout"
  /\ root' = loaded.cart
  /\ badge' = Cart_loadCartFromStorage(storage)
  /\ form' = EmptyForm
  /\ isLoading' = FALSE
  /\ inflight' = 0
  /\ crashed' = throws
  /\ notes' = IF loaded.showError /\ ~throws
                THEN enqueue(<<>>, Notice("error", "cart reset")) ELSE <<>>
  /\ redirect' = <<>>
  /\ lastOp' = [Op(op, "this") EXCEPT
                  !.notice = IF loaded.showError THEN Notice("error", "cart reset")
                             ELSE NoNotice]
  /\ scheduler' = Unloaded(scheduler)
  /\ mounts' = IF throws
                 THEN [live |-> {"Cart"}, listeners |-> Cart_subscribe({})]
                 ELSE [live |-> {"Checkout", "Cart"},
                       listeners |-> Cart_subscribe(Checkout_subscribe({}))]
  /\ UNCHANGED otherKeys
  /\ UNCHANGED storage

LoadIndex == LoadIndexTo("loadIndex")

LoadCheckout == LoadCheckoutTo("loadCheckout")

-----------------------------------------------------------------------------
(* Products.                                                               *)

\* setCart(prev => [...prev, product]), the save effect of the re-render,
\* the listeners of the window, and the notification.
AddLine(product, op, text) ==
  LET cart == Append(root, product)
      eff == Products_saveEffect(cart, storage)
  IN
  /\ page = "index"
  /\ Len(root) < MaxCart
  /\ Len(notes) < MaxNotes
  /\ storage' = eff.storage
  /\ root' = cart
  /\ badge' = IF eff.dispatched /\ "Cart" \in mounts.listeners
                THEN Cart_loadCartFromStorage(eff.seen) ELSE badge
  /\ notes' = enqueue(notes, Notice("success", text))
  /\ lastOp' = [Op(op, "this") EXCEPT !.line = product, !.arg = cart,
                  !.notice = Notice("success", text),
                  !.saved = eff.dispatched, !.dispatched = eff.dispatched,
                  !.heard = IF eff.dispatched THEN mounts.listeners ELSE {}]

addCart(product) ==
  /\ AddLine(product, "addCart", "added to cart")
  /\ UNCHANGED <<page, form, isLoading, inflight, crashed, redirect, scheduler,
                 mounts, otherKeys>>

buyNow(product) ==
  /\ AddLine(product, "buyNow", "redirecting")
  /\ redirect' = IF redirect = <<>> THEN Append(root, product) ELSE redirect
  /\ UNCHANGED <<page, form, isLoading, inflight, crashed, scheduler, mounts,
                 otherKeys>>

\* The timer of buyNow: window.location.href = "checkout.html".
redirectTimer ==
  /\ page = "index"
  /\ redirect # <<>>
  /\ LoadCheckoutTo("redirect")

-----------------------------------------------------------------------------
(* Checkout.                                                               *)

\* The tree of Checkout is mounted.
Checkout_alive == "Checkout" \in mounts.live

\* The controls of the checkout are rendered, and enabled.
CheckoutReady ==
  page = "checkout" /\ ~crashed /\ "Checkout" \in mounts.live /\ ~isLoading

\* What a write of the checkout leaves in the window: setCart(local), the
\* slot, then the listeners of "cartUpdated" (Checkout's own handler and the
\* indicator's) re-read the slot; the state set last is the one rendered.
\* A component whose tree is gone keeps its state whatever is set, and a
\* render of the checkout that throws takes its tree down.
Written(local, eff, shown, op) ==
  LET alive == "Checkout" \in mounts.live
      hears == eff.dispatched /\ "Checkout" \in mounts.listeners
      heard == loadCartFromStorage(eff.seen)
      cart == IF ~alive THEN root ELSE IF hears THEN heard.cart ELSE local
      throws == alive /\ renderThrows(cart)
  IN
  /\ storage' = eff.storage
  /\ otherKeys' = IF eff.clears THEN {} ELSE otherKeys
  /\ root' = cart
  /\ badge' = IF eff.dispatched /\ "Cart" \in mounts.listeners /\ "Cart" \in mounts.live
                THEN Cart_loadCartFromStorage(eff.seen) ELSE badge
  /\ crashed' = IF alive THEN throws ELSE crashed
  /\ notes' = IF ~alive THEN notes
              ELSE IF throws THEN <<>>
              ELSE LET reset == IF hears /\ heard.showError
                                  THEN enqueue(notes, Notice("error", "cart reset"))
                                  ELSE notes
                   IN IF shown = NoNotice THEN reset ELSE enqueue(reset, shown)
  /\ Len(notes') <= MaxNotes
  /\ mounts' = IF throws
                 THEN [live |-> mounts.live \ {"Checkout"},
                       listeners |-> Checkout_cleanup(mounts.listeners)]
                 ELSE mounts
  /\ lastOp' = [op EXCEPT !.arg = local, !.saved = TRUE,
                  !.dispatched = eff.dispatched, !.notice = shown,
                  !.heard = IF eff.dispatched THEN mounts.listeners ELSE {}]

remove(index) ==
  /\ CheckoutReady
  /\ index \in 1..Len(root)
  /\ LET updatedCart == removeLine(root, index) IN
     Written(updatedCart, saveCartToStorage(updatedCart),
             Notice("success", "item removed"),
             [Op("remove", "this") EXCEPT !.index = index, !.q = root[index].quantity])
  /\ UNCHANGED <<page, form, isLoading, inflight, redirect, scheduler>>

increase(index) ==
  /\ CheckoutReady
  /\ index \in 1..Len(root)
  /\ LET q == root[index].quantity IN q.t = "number" => q.n < MaxQty
  /\ LET updatedCart == increaseLine(root, index) IN
     Written(updatedCart, saveCartToStorage(updatedCart), NoNotice,
             [Op("increase", "this") EXCEPT !.index = index, !.q = root[index].quantity])
  /\ UNCHANGED <<page, form, isLoading, inflight, redirect, scheduler>>

decrease(index) ==
  /\ CheckoutReady
  /\ index \in 1..Len(root)
  /\ LET d == decreaseLine(root, index) IN
     Written(d.cart, saveCartToStorage(d.cart),
             IF d.removed THEN Notice("success", "item removed") ELSE NoNotice,
             [Op("decrease", "this") EXCEPT !.index = index, !.q = root[index].quantity])
  /\ UNCHANGED <<page, form, isLoading, inflight, redirect, scheduler>>

\* addFirstName .. addApart: the user edits the billing fields.
input(f) ==
  /\ CheckoutReady
  /\ f # form
  /\ form' = f
  /\ lastOp' = Op("input", "this")
  /\ UNCHANGED <<storage, page, root, badge, isLoading, inflight, crashed, notes,
                 redirect, scheduler, mounts, otherKeys>>

\* order() up to its await, on the fields and the cart of the state.
orderCall(op) ==
  /\ LET validation == validateCheckoutForm(form, root) IN
     IF validation.isValid
       THEN /\ inflight < MaxInflight
            /\ isLoading' = TRUE
            /\ inflight' = inflight + 1
            /\ lastOp' = [Op(op, "this") EXCEPT !.outcome = "posted"]
            /\ UNCHANGED notes
       ELSE /\ Len(notes) < MaxNotes
            /\ notes' = enqueue(notes, validationNotice(validation))
            /\ lastOp' = [Op(op, "this") EXCEPT !.outcome = "invalid",
                            !.notice = validationNotice(validation)]
            /\ UNCHANGED <<isLoading, inflight>>
  /\ UNCHANGED <<storage, page, root, badge, form, crashed, redirect, scheduler,
                 mounts, otherKeys>>

\* The "Complete Order" button (disabled while loading or with an empty
\* cart): order() up to its await.
order ==
  /\ CheckoutReady
  /\ Len(root) > 0
  /\ orderCall("order")

\* A submit event on the billing form: preventDefault(), order().
handleSubmit ==
  /\ page = "checkout"
  /\ ~crashed
  /\ "Checkout" \in mounts.live
  /\ orderCall("handleSubmit")

\* An order() that takes every resolved answer for a success.
orderAnswer_anyStatus(outcome) ==
  CASE outcome \in {"status200", "statusOther"} ->
         [success |-> TRUE, notice |-> Notice("success", "order placed")]
    [] outcome = "errorResponse" -> [success |-> FALSE, notice |-> Notice("error", "server error")]
    [] outcome = "errorRequest" -> [success |-> FALSE, notice |-> Notice("error", "network error")]
    [] OTHER -> [success |-> FALSE, notice |-> Notice("error", "unexpected error")]

\* What order() does with the answer of axios.post: res.status === 200, the
\* else branch, and the three branches of the catch.
orderAnswer(outcome) ==
  CASE outcome = "status200" -> [success |-> TRUE, notice |-> Notice("success", "order placed")]
    [] outcome = "statusOther" -> [success |-> FALSE, notice |-> Notice("error", "server problem")]
    [] outcome = "errorResponse" -> [success |-> FALSE, notice |-> Notice("error", "server error")]
    [] outcome = "errorRequest" -> [success |-> FALSE, notice |-> Notice("error", "network error")]
    [] OTHER -> [success |-> FALSE, notice |-> Notice("error", "unexpected error")]

\* An order() that resets the flag at the end of its try block only.
orderSettled_inTry(outcome) ==
  /\ page = "checkout"
  /\ inflight > 0
  /\ LET answer == orderAnswer(outcome) IN
     IF answer.success
       THEN /\ form' = IF Checkout_alive THEN EmptyForm ELSE form
            /\ Written(<<>>, orderCleared, answer.notice,
                       [Op("orderSettled", "this") EXCEPT !.outcome = outcome])
       ELSE /\ Checkout_alive => Len(notes) < MaxNotes
            /\ notes' = IF Checkout_alive THEN enqueue(notes, answer.notice) ELSE notes
            /\ lastOp' = [Op("orderSettled", "this") EXCEPT !.outcome = outcome,
                            !.notice = answer.notice]
            /\ UNCHANGED <<storage, root, badge, form, crashed, mounts,
                           otherKeys>>
  /\ isLoading' = (isLoading /\ (~Checkout_alive \/ outcome \notin {"status200", "statusOther"}))
  /\ inflight' = inflight - 1
  /\ UNCHANGED <<page, redirect, scheduler>>

\* order() after its await: the branches of the try, and the finally.  The
\* setters of a Checkout whose tree is gone change nothing.
orderSettled(outcome) ==
  /\ page = "checkout"
  /\ inflight > 0
  /\ LET answer == orderAnswer(outcome) IN
     IF answer.success
       THEN /\ form' = IF Checkout_alive THEN EmptyForm ELSE form
            /\ Written(<<>>, orderCleared, answer.notice,
                       [Op("orderSettled", "this") EXCEPT !.outcome = outcome])
       ELSE /\ Checkout_alive => Len(notes) < MaxNotes
            /\ notes' = IF Checkout_alive THEN enqueue(notes, answer.notice) ELSE notes
            /\ lastOp' = [Op("orderSettled", "this") EXCEPT !.outcome = outcome,
                            !.notice = answer.notice]
            /\ UNCHANGED <<storage, root, badge, form, crashed, mounts,
                           otherKeys>>
  /\ isLoading' = (isLoading /\ ~Checkout_alive)
  /\ inflight' = inflight - 1
  /\ UNCHANGED <<page, redirect, scheduler>>

-----------------------------------------------------------------------------
(* Notifications of the root component.                                    *)

\* The timer of a notification, or its close button: removeNotification(id).
removeNotification(k) ==
  /\ page # "closed"
  /\ ~crashed
  /\ page = "checkout" => Checkout_alive
  /\ k \in 1..Len(notes)
  /\ notes' = removeLine(notes, k)
  /\ lastOp' = Op("removeNotification", "this")
  /\ UNCHANGED <<storage, page, root, badge, form, isLoading, inflight, crashed,
                 redirect, scheduler, mounts, otherKeys>>

-----------------------------------------------------------------------------
(* Another tab of the origin: it loads a document, which reads the slot,   *)
(* and runs one handler.  This window sees the slot change and no event.   *)

OtherTab(eff, op) ==
  /\ storage' = eff.storage
  /\ otherKeys' = IF eff.clears THEN {} ELSE otherKeys
  /\ lastOp' = [op EXCEPT !.saved = TRUE, !.dispatched = eff.dispatched]
  /\ UNCHANGED <<page, root, badge, form, isLoading, inflight, crashed, notes,
                 redirect, scheduler, mounts>>

otherTabAdd(product) ==
  LET cart == Products_loadEffect(storage, <<>>) IN
  /\ Len(cart) < MaxCart
  /\ OtherTab(Products_saveEffect(Append(cart, product), storage),
              [Op("addCart", "other") EXCEPT !.line = product,
                 !.arg = Append(cart, product)])

otherTabRemove(index) ==
  LET cart == loadCartFromStorage(storage).cart IN
  /\ ~renderThrows(cart)
  /\ index \in 1..Len(cart)
  /\ OtherTab(saveCartToStorage(removeLine(cart, index)),
              [Op("remove", "other") EXCEPT !.index = index,
                 !.q = cart[index].quantity, !.arg = removeLine(cart, index)])

otherTabOrder ==
  LET cart == loadCartFromStorage(storage).cart IN
  /\ ~renderThrows(cart)
  /\ Len(cart) > 0
  /\ OtherTab(orderCleared, [Op("orderSettled", "other") EXCEPT !.outcome = "status200"])

-----------------------------------------------------------------------------
Next ==
  \/ LoadIndex
  \/ LoadCheckout
  \/ \E product \in Catalog : addCart(product)
  \/ \E product \in Catalog : buyNow(product)
  \/ redirectTimer
  \/ \E index \in 1..MaxCart : remove(index)
  \/ \E index \in 1..MaxCart : increase(index)
  \/ \E index \in 1..MaxCart : decrease(index)
  \/ \E f \in Forms : input(f)
  \/ order
  \/ \E outcome \in Outcomes : orderSettled(outcome)
  \/ \E k \in 1..MaxNotes : removeNotification(k)

\* The window alone.
Spec == Init /\ [][Next]_vars

\* The window, and other tabs of the origin writing the slot in between.
NextTabs ==
  \/ Next
  \/ \E product \in Catalog : otherTabAdd(product)
  \/ \E index \in 1..MaxCart : otherTabRemove(index)
  \/ otherTabOrder

SpecTabs == Init /\ [][NextTabs]_vars

-----------------------------------------------------------------------------
(* A slot that holds whatever an earlier session, or another script, left. *)

StoredLines ==
  {stringifyLine(Line("Musk", Num(50), Num(1))),
   stringifyLine(Line("Oud", Text, Num(1))),
   stringifyLine(Line("Amber", Undefined, Num(2))),
   stringifyLine(Line("Rose", Str(100), Num(0))),
   stringifyLine(NullLine)}

StoredContents ==
  {Absent, EmptyString, Unparseable, NonArray} \cup
  {ArrayText(items) : items \in UNION {[1..n -> StoredLines] : n \in 0..MaxCart}}

InitStored ==
  /\ storage \in StoredContents
  /\ page = "closed"
  /\ root = <<>>
  /\ badge = <<>>
  /\ form = EmptyForm
  /\ isLoading = FALSE
  /\ inflight = 0
  /\ crashed = FALSE
  /\ notes = <<>>
  /\ redirect = <<>>
  /\ lastOp = Op("init", "this")
  /\ scheduler = NoScheduler
  /\ mounts = NoMounts
  /\ otherKeys = {}

SpecStored == InitStored /\ [][Next]_vars

\* The checkout page on such a slot: its render and its cart controls.
NextRender ==
  \/ LoadCheckout
  \/ \E index \in 1..MaxCart : remove(index)
  \/ \E index \in 1..MaxCart : increase(index)
  \/ \E index \in 1..MaxCart : decrease(index)
  \/ \E k \in 1..MaxNotes : removeNotification(k)

SpecRender == InitStored /\ [][NextRender]_vars

-----------------------------------------------------------------------------
(* Vocabulary of the properties.                                           *)

\* The cart a read of the slot yields.
Persisted == Cart_loadCartFromStorage(storage)

\* What a read yields once a cart has been stored.
Stored(cart) == Cart_loadCartFromStorage(JSONstringify(cart))

\* The cart without the line at position index.
Without(cart, index) == SubSeq(cart, 1, index - 1) \o SubSeq(cart, index + 1, Len(cart))

AddOps == {"addCart", "buyNow"}
LineOps == {"remove", "increase", "decrease"}

\* The last handler ran in this window and changed the cart.
Mutated == lastOp.tab = "this" /\ lastOp.op \in AddOps \cup LineOps
OrderAccepted ==
  lastOp.tab = "this" /\ lastOp.op = "orderSettled" /\ lastOp.outcome = "status200"

\* A valid cart line: an object with an integer quantity >= 1 and a price.
IsValidLine(l) ==
  /\ l.shape = "object"
  /\ l.quantity.t = "number" /\ l.quantity.n >= 1
  /\ l.price.t \in {"number", "string"}
IsValidCart(cart) == \A i \in 1..Len(cart) : IsValidLine(cart[i])

\* The operation of lastOp, applied to a cart.
Applied(op, cart) ==
  CASE op.op \in AddOps -> Append(cart, op.line)
    [] op.op = "remove" -> removeLine(cart, op.index)
    [] op.op = "increase" /\ op.index <= Len(cart) -> increaseLine(cart, op.index)
    [] op.op = "decrease" /\ op.index <= Len(cart) -> decreaseLine(cart, op.index).cart
    [] OTHER -> cart

-----------------------------------------------------------------------------
(* Properties of the cart store and of the broadcast.                      *)

\* C1: once a handler of the window has changed the cart and "cartUpdated"
\* has been delivered, the view of every mounted component of the window,
\* the originator's included, equals by content the cart a read of the slot
\* yields.
C1_ViewsEqualStoredCart ==
  (Mutated \/ OrderAccepted) => (root = Persisted /\ badge = Persisted)

\* The originator set a cart with a NaN quantity and, on its own broadcast,
\* adopted the cart it read back.
C1_Witness ==
  /\ Mutated
  /\ lastOp.op = "increase"
  /\ lastOp.dispatched
  /\ lastOp.arg # root
  /\ root = Persisted
  /\ badge = Persisted

\* C2 (as stated): every mutating handler stores the cart obtained by
\* applying its operation to the cart the slot held when it started, also
\* when the cart of the component had fallen behind the slot.
C2_DerivedFromStoredCart ==
  Mutated => Persisted = Stored(Applied(lastOp, lastOp.before))

C4_BothLinesPersisted ==
  [][(/\ lastOp.op \in AddOps
      /\ lastOp'.op \in AddOps
      /\ lastOp.tab # lastOp'.tab)
     => Cart_loadCartFromStorage(storage')
          = Stored(lastOp.before \o <<lastOp.line, lastOp'.line>>)]_vars

\* C5: a valid cart, the empty one included, that a handler wrote to the
\* slot is read back equal by content by every mount point, and without an
\* error notification.
C5_WriteThenRead ==
  (/\ lastOp.tab = "this"
   /\ lastOp.saved
   /\ lastOp.op # "orderSettled"
   /\ IsValidCart(lastOp.arg))
  => /\ loadCartFromStorage(storage) = [cart |-> lastOp.arg, showError |-> FALSE]
     /\ Cart_loadCartFromStorage(storage) = lastOp.arg
     /\ Products_loadEffect(storage, <<>>) = lastOp.arg

\* The checkout wrote a valid cart of two lines, one priced with a string
\* and one with a number.
C5_Witness ==
  /\ lastOp.tab = "this"
  /\ lastOp.saved
  /\ lastOp.op \in LineOps
  /\ IsValidCart(lastOp.arg)
  /\ \E i, j \in 1..Len(lastOp.arg) :
       lastOp.arg[i].price.t = "string" /\ lastOp.arg[j].price.t = "number"
  /\ Cart_loadCartFromStorage(storage) = lastOp.arg

\* The slot holds a JSON array of objects.
HoldsLines(raw) ==
  raw.kind = "array" /\ \A i \in 1..Len(raw.items) : raw.items[i].shape = "object"

\* C6 (as stated): whatever the slot holds that is no array of cart lines
\* (nothing, text that is no JSON, JSON that is no array, an array with an
\* element that is no line), a document loaded on it reads the empty cart
\* and renders without a fault.
C6_MalformedReadsEmpty ==
  (lastOp.op \in {"loadIndex", "loadCheckout"} /\ ~HoldsLines(storage))
  => (root = <<>> /\ badge = <<>> /\ ~crashed)

\* C7 (as stated): starting from an empty store, every line in the slot has
\* an integer quantity of at least 1.
C7_StoredQuantitiesAtLeastOne ==
  \A i \in 1..Len(storage.items) :
    /\ storage.items[i].shape = "object"
    /\ storage.items[i].quantity.t = "json:number"
    /\ storage.items[i].quantity.n >= 1

\* C8: decrease(i) on a line of quantity 1 removes the line: the cart set
\* and stored has one line fewer, the other lines unchanged and in their
\* order, and no line of quantity 0 is written that the cart did not hold
\* in another position.
C8_DecreaseAtOneRemoves ==
  [][(/\ lastOp'.tab = "this"
      /\ lastOp'.op = "decrease"
      /\ lastOp'.q = Num(1))
     => /\ lastOp'.arg = Without(root, lastOp'.index)
        /\ Len(lastOp'.arg) = Len(root) - 1
        /\ storage' = JSONstringify(Without(root, lastOp'.index))
        /\ root' = Stored(Without(root, lastOp'.index))
        /\ \A k \in 1..Len(storage'.items) :
             storage'.items[k].quantity = JNum(0)
               => \E j \in 1..Len(root) : j # lastOp'.index /\ root[j].quantity = Num(0)]_vars

\* decrease on a line of quantity 1 ran and left the other line.
C8_Witness ==
  /\ lastOp.tab = "this"
  /\ lastOp.op = "decrease"
  /\ lastOp.q = Num(1)
  /\ Len(lastOp.before) = 2
  /\ Len(root) = 1
  /\ Persisted = root

\* C9: once an order has been accepted, a read of the slot yields the empty
\* cart, the cart of the checkout is empty, and "cartUpdated" was
\* dispatched after the storage was cleared, the indicator showing no line.
C9_AcceptedOrderEmptiesCart ==
  OrderAccepted =>
    /\ Persisted = <<>>
    /\ loadCartFromStorage(storage) = [cart |-> <<>>, showError |-> FALSE]
    /\ root = <<>>
    /\ lastOp.dispatched
    /\ badge = <<>>

\* An order on a cart with lines was accepted.
C9_Witness ==
  /\ OrderAccepted
  /\ lastOp.before # <<>>
  /\ lastOp.dispatched
  /\ Persisted = <<>>
  /\ root = <<>>
  /\ badge = <<>>

\* C10: a submission that is not accepted (the form does not validate, the
\* status is not 200, the server answers with an error, the request gets no
\* answer, another exception) changes neither the slot nor the cart of the
\* checkout nor the indicator; order() changes them only on status 200.
C10_RejectedOrderKeepsCart ==
  [][(/\ lastOp'.tab = "this"
      /\ lastOp'.op \in {"order", "orderSettled"}
      /\ lastOp'.outcome # "status200")
     => (storage' = storage /\ root' = root /\ badge' = badge)]_vars

\* The request got no answer and the cart with its lines is still there.
C10_Witness ==
  /\ lastOp.tab = "this"
  /\ lastOp.op = "orderSettled"
  /\ lastOp.outcome = "errorRequest"
  /\ root # <<>>
  /\ Persisted = root
  /\ badge = root

-----------------------------------------------------------------------------
(* Properties of the subtotal and of the recovery from a malformed slot.   *)

\* C16 (as stated): when a document is loaded on a slot whose text is no
\* JSON or no JSON array, every component gets the empty cart and no
\* notification is enqueued.
C16_MalformedReadNotNotified ==
  (/\ lastOp.op \in {"loadIndex", "loadCheckout"}
   /\ storage.kind \in {"unparseable", "nonarray"})
  => (root = <<>> /\ badge = <<>> /\ notes = <<>> /\ lastOp.notice = NoNotice)

\* The permutations of the positions of a cart.
Reorderings(n) ==
  {p \in [1..n -> 1..n] : \A i, j \in 1..n : p[i] = p[j] => i = j}
Permuted(cart, p) == [i \in 1..Len(cart) |-> cart[p[i]]]

\* The price of the line coerces to a number: Number(price) is not NaN.
PriceCoerces(l) == l.price.t \in {"number", "string", "null"}

\* The lines of the cart whose price coerces, in their order.
PricedLines(cart) == SelectSeq(cart, PriceCoerces)

\* C20: the subtotal the checkout renders is the same for every permutation
\* of the lines of its cart, and a line whose price does not coerce to a
\* number (no price, text that is no numeral) adds 0 to it: the subtotal is
\* the one of the cart without such lines, and the render does not throw
\* on them.
C20_SubtotalPermutationInvariant ==
  (page = "checkout" /\ ~crashed) =>
    /\ \A p \in Reorderings(Len(root)) : subtotal(Permuted(root, p)) = subtotal(root)
    /\ subtotal(root) = subtotal(PricedLines(root))
    /\ \A i \in 1..Len(root) : ~PriceCoerces(root[i]) => subtotal(<<root[i]>>) = 0

\* The checkout renders two different lines, one with a price that is no
\* numeral, and a subtotal above 0.
C20_Witness ==
  /\ page = "checkout"
  /\ ~crashed
  /\ Len(root) = 2
  /\ root[1] # root[2]
  /\ \E i \in 1..2 : root[i].price = Text
  /\ subtotal(root) > 0
  /\ subtotal(Permuted(root, <<2, 1>>)) = subtotal(root)

-----------------------------------------------------------------------------
(* The contact page: Contact and the Cart indicator.                       *)

\* /^[^\s@]+@[^\s@]+\.[^\s@]+$/ on the values an email field takes here.
emailRegexTest(v) == v \in {"ann@x.org"}

EmptyContact == [name |-> "", email |-> "", phone |-> "", message |-> ""]
GoodContact == [name |-> "Ann", email |-> "ann@x.org", phone |-> "0100", message |-> "Hi"]
ContactForms ==
  {GoodContact, [GoodContact EXCEPT !.name = " "],
   [GoodContact EXCEPT !.email = "ann@x"],
   [GoodContact EXCEPT !.phone = "abc"],
   [GoodContact EXCEPT !.name = " ", !.email = "ann@x"]}

validateForm(f) ==
  LET missingFields ==
        Missing(trim(f.name) = "", "Name") \o
        Missing(trim(f.email) = "", "Email") \o
        Missing(trim(f.phone) = "", "Phone") \o
        Missing(trim(f.message) = "", "Message")
  IN
  IF trim(f.email) # "" /\ ~emailRegexTest(f.email)
    THEN [isValid |-> FALSE, missingFields |-> <<>>, error |-> "email"]
  ELSE IF trim(f.phone) # "" /\ ~phoneRegexTest(f.phone)
    THEN [isValid |-> FALSE, missingFields |-> <<>>, error |-> "phone"]
  ELSE IF Len(missingFields) > 0
    THEN [isValid |-> FALSE, missingFields |-> missingFields, error |-> ""]
  ELSE [isValid |-> TRUE, missingFields |-> <<>>, error |-> ""]

LoadContact ==
  /\ page' = "contact"
  /\ root' = <<>>
  /\ badge' = Cart_loadCartFromStorage(storage)
  /\ form' = EmptyContact
  /\ isLoading' = FALSE
  /\ inflight' = 0
  /\ crashed' = FALSE
  /\ notes' = <<>>
  /\ redirect' = <<>>
  /\ lastOp' = Op("loadContact", "this")
  /\ scheduler' = Unloaded(scheduler)
  /\ mounts' = [live |-> {"Cart"}, listeners |-> Cart_subscribe({})]
  /\ UNCHANGED otherKeys
  /\ UNCHANGED storage

\* addName .. addMessage: the fields are disabled while loading.
contactInput(f) ==
  /\ page = "contact"
  /\ ~isLoading
  /\ f # form
  /\ form' = f
  /\ lastOp' = Op("contactInput", "this")
  /\ UNCHANGED <<storage, page, root, badge, isLoading, inflight, crashed, notes,
                 redirect, scheduler, mounts, otherKeys>>

\* addContact() up to its await.
addContact ==
  /\ LET validation == validateForm(form) IN
     IF validation.isValid
       THEN /\ inflight < MaxInflight
            /\ isLoading' = TRUE
            /\ inflight' = inflight + 1
            /\ lastOp' = [Op("addContact", "this") EXCEPT !.outcome = "posted"]
            /\ UNCHANGED notes
       ELSE /\ Len(notes) < MaxNotes
            /\ notes' = enqueue(notes, validationNotice(validation))
            /\ lastOp' = [Op("addContact", "this") EXCEPT !.outcome = "invalid",
                            !.notice = validationNotice(validation)]
            /\ UNCHANGED <<isLoading, inflight>>
  /\ UNCHANGED <<storage, page, root, badge, form, crashed, redirect, scheduler,
                 mounts, otherKeys>>

\* A submit event on the contact form: preventDefault(), addContact().
Contact_handleSubmit ==
  /\ page = "contact"
  /\ addContact

\* An addContact() that takes every resolved answer for a success.
addContactAnswer_anyStatus(outcome) ==
  CASE outcome \in {"status200", "statusOther"} ->
         [success |-> TRUE, notice |-> Notice("success", "message sent")]
    [] outcome = "errorResponse" -> [success |-> FALSE, notice |-> Notice("error", "server error")]
    [] outcome = "errorRequest" -> [success |-> FALSE, notice |-> Notice("error", "network error")]
    [] OTHER -> [success |-> FALSE, notice |-> Notice("error", "unexpected error")]

\* What addContact() does with the answer of axios.post.
addContactAnswer(outcome) ==
  CASE outcome = "status200" -> [success |-> TRUE, notice |-> Notice("success", "message sent")]
    [] outcome = "statusOther" -> [success |-> FALSE, notice |-> Notice("error", "server problem")]
    [] outcome = "errorResponse" -> [success |-> FALSE, notice |-> Notice("error", "server error")]
    [] outcome = "errorRequest" -> [success |-> FALSE, notice |-> Notice("error", "network error")]
    [] OTHER -> [success |-> FALSE, notice |-> Notice("error", "unexpected error")]

\* addContact() after its await: the branches of the try, and the finally.
contactSettled(outcome) ==
  /\ page = "contact"
  /\ inflight > 0
  /\ Len(notes) < MaxNotes
  /\ LET answer == addContactAnswer(outcome) IN
     /\ form' = IF answer.success THEN EmptyContact ELSE form
     /\ notes' = enqueue(notes, answer.notice)
     /\ lastOp' = [Op("contactSettled", "this") EXCEPT !.outcome = outcome,
                     !.notice = answer.notice]
  /\ isLoading' = FALSE
  /\ inflight' = inflight - 1
  /\ UNCHANGED <<storage, page, root, badge, crashed, redirect, scheduler, mounts,
                 otherKeys>>

-----------------------------------------------------------------------------
(* The two forms, with the submit events of their form elements.           *)

BillingForms == Forms \cup {[GoodForm EXCEPT !.fName = " ", !.phone = "abc"]}

NextForms ==
  \/ LoadIndex
  \/ LoadCheckout
  \/ LoadContact
  \/ \E product \in Catalog : addCart(product)
  \/ \E f \in BillingForms : input(f)
  \/ order
  \/ handleSubmit
  \/ \E outcome \in Outcomes : orderSettled(outcome)
  \/ \E f \in ContactForms : contactInput(f)
  \/ Contact_handleSubmit
  \/ \E outcome \in Outcomes : contactSettled(outcome)
  \/ \E k \in 1..MaxNotes : removeNotification(k)

SpecForms == Init /\ [][NextForms]_vars

\* The answer of a remote call arrives, and a notification's timer fires.
FairForms ==
  /\ WF_vars(\E outcome \in Outcomes : orderSettled(outcome))
  /\ WF_vars(\E outcome \in Outcomes : contactSettled(outcome))
  /\ WF_vars(\E k \in 1..MaxNotes : removeNotification(k))

SpecFormsFair == SpecForms /\ FairForms

-----------------------------------------------------------------------------
(* The notifications of a mounted root component, with their timers.       *)

\* The root component is mounted and renders.
OwnerMounted == page # "closed" /\ ~crashed

\* handleClose of the Notification of id: setIsAnimating(false), and a
\* timeout that calls onClose; nothing clears that timeout.
handleClose(s, id) == [s EXCEPT !.closing[id] = @ + 1]

\* showSuccess, showError, showWarning, showInfo: addNotification with a
\* new identifier; setNotifications renders the owner again.
showNotification(type, duration) ==
  /\ OwnerMounted
  /\ Len(scheduler.notifications) < MaxToasts
  /\ scheduler.nextId <= MaxIds
  /\ LET added == addNotification(scheduler.notifications, scheduler.nextId,
                                  type, duration) IN
     scheduler' = [scheduler EXCEPT
                     !.notifications = Remounted(added.notifications),
                     !.nextId = @ + 1,
                     !.last = [NoLast EXCEPT !.op = "addNotification",
                                 !.id = scheduler.nextId,
                                 !.returned = added.returned]]
  /\ UNCHANGED <<storage, page, root, badge, form, isLoading, inflight, crashed,
                 notes, redirect, lastOp, mounts, otherKeys>>

\* The owner renders again for a change of its own state: a field of the
\* form, the cart, isLoading.
render ==
  /\ OwnerMounted
  /\ Len(scheduler.notifications) > 0
  /\ scheduler' = [scheduler EXCEPT
                     !.notifications = Remounted(scheduler.notifications),
                     !.last = [NoLast EXCEPT !.op = "render"]]
  /\ UNCHANGED <<storage, page, root, badge, form, isLoading, inflight, crashed,
                 notes, redirect, lastOp, mounts, otherKeys>>

\* One tick passes.  A timer that is due fires first, and so does the
\* timeout of handleClose, which is shorter than a tick.
Tick ==
  /\ OwnerMounted
  /\ Len(scheduler.notifications) > 0
  /\ \A i \in 1..Len(scheduler.notifications) :
       /\ scheduler.notifications[i].left # 0
       /\ scheduler.notifications[i].age < MaxAge
  /\ \A id \in 1..MaxIds : scheduler.closing[id] = 0
  /\ scheduler' = [scheduler EXCEPT
                     !.notifications =
                       [i \in 1..Len(scheduler.notifications) |->
                          [scheduler.notifications[i] EXCEPT
                             !.age = @ + 1,
                             !.left = IF @ > 0 THEN @ - 1 ELSE @]],
                     !.last = [NoLast EXCEPT !.op = "tick"]]
  /\ UNCHANGED <<storage, page, root, badge, form, isLoading, inflight, crashed,
                 notes, redirect, lastOp, mounts, otherKeys>>

\* The timer of the Notification at position i fires: handleClose.
timerFires(i) ==
  /\ OwnerMounted
  /\ i \in 1..Len(scheduler.notifications)
  /\ scheduler.notifications[i].left = 0
  /\ scheduler.closing[scheduler.notifications[i].id] + 1 \in Closings
  /\ scheduler' = [handleClose(scheduler, scheduler.notifications[i].id) EXCEPT
                     !.notifications[i].left = NoTimer,
                     !.last = [NoLast EXCEPT !.op = "timer",
                                 !.id = scheduler.notifications[i].id]]
  /\ UNCHANGED <<storage, page, root, badge, form, isLoading, inflight, crashed,
                 notes, redirect, lastOp, mounts, otherKeys>>

\* A click on the close button of the Notification at position i.
closeClick(i) ==
  /\ OwnerMounted
  /\ i \in 1..Len(scheduler.notifications)
  /\ scheduler.closing[scheduler.notifications[i].id] + 1 \in Closings
  /\ scheduler' = [handleClose(scheduler, scheduler.notifications[i].id) EXCEPT
                     !.last = [NoLast EXCEPT !.op = "close",
                                 !.id = scheduler.notifications[i].id]]
  /\ UNCHANGED <<storage, page, root, badge, form, isLoading, inflight, crashed,
                 notes, redirect, lastOp, mounts, otherKeys>>

\* The timeout of a handleClose for id runs: onClose, which is
\* removeNotification(id); filter returns a new array, so the owner
\* renders again whether or not an entry went.
closeTimeout(id) ==
  /\ OwnerMounted
  /\ id \in 1..MaxIds
  /\ scheduler.closing[id] > 0
  /\ scheduler' = [scheduler EXCEPT
                     !.closing[id] = @ - 1,
                     !.notifications =
                       Remounted(Hook_removeNotification(scheduler.notifications, id)),
                     !.last = [NoLast EXCEPT !.op = "removeNotification",
                                 !.id = id,
                                 !.found = \E i \in 1..Len(scheduler.notifications) :
                                             scheduler.notifications[i].id = id]]
  /\ UNCHANGED <<storage, page, root, badge, form, isLoading, inflight, crashed,
                 notes, redirect, lastOp, mounts, otherKeys>>

NextNotes ==
  \/ LoadContact
  \/ \E type \in ToastTypes, duration \in Durations : showNotification(type, duration)
  \/ render
  \/ Tick
  \/ \E i \in 1..MaxToasts : timerFires(i)
  \/ \E i \in 1..MaxToasts : closeClick(i)
  \/ \E id \in 1..MaxIds : closeTimeout(id)

SpecNotes == Init /\ [][NextNotes]_vars

-----------------------------------------------------------------------------
(* Properties of the two forms.                                            *)

SubmitOps == {"order", "handleSubmit", "addContact"}
SettleOps == {"orderSettled", "contactSettled"}

\* C11: for the checkout and for the contact form, every answer of the
\* remote call (status 200, another status, an error response, no response,
\* another exception) resets isLoading, and a flag that a submission has
\* set is eventually reset.
C11_LoadingReleased ==
  /\ [][(lastOp'.op \in SettleOps /\ lastOp'.tab = "this") => ~isLoading']_vars
  /\ (isLoading ~> ~isLoading)

\* The remote call of the contact form threw, and the flag is reset.
C11_Witness ==
  /\ page = "contact"
  /\ lastOp.op = "contactSettled"
  /\ lastOp.outcome = "errorOther"
  /\ inflight = 0
  /\ ~isLoading

\* C12 (as stated): at most one remote call of the form is awaiting its
\* answer at any time, whether the submission came from the button or from
\* a submit event of the form.
C12_OneCallInFlight ==
  inflight <= 1

\* C13: a submission of the checkout with an empty cart, whatever the
\* billing fields hold, starts no remote call and enqueues one notification
\* of type error; it names the empty cart unless the phone number is
\* malformed.
C13_EmptyCartIsRejected ==
  [][(/\ lastOp'.op \in {"order", "handleSubmit"}
      /\ lastOp'.tab = "this"
      /\ Len(root) = 0)
     => /\ lastOp'.outcome = "invalid"
        /\ inflight' = inflight
        /\ isLoading' = isLoading
        /\ notes' = Append(notes, [type |-> "error"])
        /\ lastOp'.notice.type = "error"
        /\ lastOp'.notice.text \in {"empty cart", "phone"}
        /\ (trim(form.phone) = "" \/ phoneRegexTest(form.phone))
             => lastOp'.notice.text = "empty cart"]_vars

\* The billing form was submitted complete, with an empty cart.
C13_Witness ==
  /\ page = "checkout"
  /\ lastOp.op = "handleSubmit"
  /\ root = <<>>
  /\ form = GoodForm
  /\ lastOp.notice = Notice("error", "empty cart")
  /\ notes = <<[type |-> "error"]>>
  /\ inflight = 0
  /\ ~isLoading

If(cond, name) == IF cond THEN {name} ELSE {}

\* The fields of a form that make its validation fail.
OffendingBilling(f) ==
  If(trim(f.fName) = "", "First Name") \cup If(trim(f.lName) = "", "Last Name") \cup
  If(trim(f.adress) = "", "Address") \cup If(trim(f.phone) = "", "Phone Number") \cup
  If(trim(f.building) = "", "Building Number") \cup
  If(trim(f.apart) = "", "Apartment Number") \cup
  If(trim(f.phone) # "" /\ ~phoneRegexTest(f.phone), "Phone Number")
OffendingContact(f) ==
  If(trim(f.name) = "", "Name") \cup If(trim(f.email) = "", "Email") \cup
  If(trim(f.phone) = "", "Phone") \cup If(trim(f.message) = "", "Message") \cup
  If(trim(f.email) # "" /\ ~emailRegexTest(f.email), "Email") \cup
  If(trim(f.phone) # "" /\ ~phoneRegexTest(f.phone), "Phone")

\* The fields a notification names.
NamedFields(n) ==
  IF n.type = "warning" THEN {n.fields[i] : i \in 1..Len(n.fields)}
  ELSE IF n.text = "phone" THEN {"Phone Number", "Phone"}
  ELSE IF n.text = "email" THEN {"Email"}
  ELSE {}

\* C14 (as stated): a submission whose fields fail validation (the cart of
\* the checkout holding lines) starts no remote call, leaves isLoading
\* false, and its one notification, of type warning or error, names every
\* offending field.
C14_EveryOffendingFieldNamed ==
  (/\ lastOp.tab = "this"
   /\ lastOp.op \in SubmitOps
   /\ lastOp.outcome = "invalid"
   /\ page = "checkout" => Len(root) > 0)
  => /\ lastOp.notice.type \in {"warning", "error"}
     /\ inflight = 0
     /\ ~isLoading
     /\ IF page = "checkout"
          THEN OffendingBilling(form) \subseteq NamedFields(lastOp.notice)
          ELSE OffendingContact(form) \subseteq NamedFields(lastOp.notice)

\* C15: the answer to a submission that passed validation enqueues one
\* notification: of type success when the status is 200 and of type error,
\* with the category of the failure, otherwise; the component stays
\* rendered.
C15_OneNoticePerAnswer ==
  [][(lastOp'.op \in SettleOps /\ lastOp'.tab = "this")
     => /\ notes' = Append(notes, [type |-> lastOp'.notice.type])
        /\ lastOp'.notice.type =
             (IF lastOp'.outcome = "status200" THEN "success" ELSE "error")
        /\ lastOp'.outcome = "statusOther" => lastOp'.notice.text = "server problem"
        /\ lastOp'.outcome = "errorResponse" => lastOp'.notice.text = "server error"
        /\ lastOp'.outcome = "errorRequest" => lastOp'.notice.text = "network error"
        /\ lastOp'.outcome = "errorOther" => lastOp'.notice.text = "unexpected error"
        /\ ~crashed']_vars

\* The order was accepted and its one notification is the success.
C15_Witness ==
  /\ page = "checkout"
  /\ lastOp.op = "orderSettled"
  /\ lastOp.outcome = "status200"
  /\ lastOp.notice.type = "success"
  /\ notes = <<[type |-> "success"]>>
  /\ ~crashed

-----------------------------------------------------------------------------
(* Properties of the notifications.                                        *)

\* The identifiers of an array of notifications, in its order.
Ids(list) == [i \in 1..Len(list) |-> list[i].id]
Has(list, id) == \E i \in 1..Len(list) : list[i].id = id

\* C17: a notification leaves the active set exactly once, however the
\* clicks on its close button and the expiry of its timer interleave.  A
\* timer that fires or a click schedules the removal of that identifier
\* and removes nothing yet; the removal of an identifier that is in the set
\* takes out that one entry and keeps the others in their order; the
\* removal of an identifier that has already left keeps the set as it is;
\* an entry leaves only by the removal of its own identifier or with its
\* document, and an identifier that has left is never in the set again.
C17_RemovedExactlyOnce ==
  [][LET before == scheduler.notifications
         after == scheduler'.notifications
         op == scheduler'.last.op
         id == scheduler'.last.id
     IN /\ op = "removeNotification" =>
             IF Has(before, id)
               THEN /\ Len(after) = Len(before) - 1
                    /\ Ids(after) = SelectSeq(Ids(before), LAMBDA k : k # id)
               ELSE Ids(after) = Ids(before)
        /\ op \in {"timer", "close"} =>
             /\ Ids(after) = Ids(before)
             /\ scheduler'.closing[id] > 0
        /\ \A k \in 1..MaxIds :
             /\ Has(before, k) /\ ~Has(after, k) =>
                  \/ op = "removeNotification" /\ id = k
                  \/ op = "" /\ after = <<>>
             /\ ~Has(before, k) /\ k < scheduler.nextId => ~Has(after, k)
        /\ \A i, j \in 1..Len(after) : after[i].id = after[j].id => i = j
    ]_vars

\* A second close for an identifier that has left, with another
\* notification in the set.
C17_Witness ==
  /\ scheduler.last.op = "removeNotification"
  /\ ~scheduler.last.found
  /\ Len(scheduler.notifications) > 0

\* C18: the removal of a notification is timed from addNotification: while
\* its timer waits, the time since addNotification and the time left on
\* the timer add up to its duration, whatever the owner did in between
\* (further notifications, removals, renders), and a timer has fired only
\* on an entry that is as old as its duration.
C18_DueAtEnqueuePlusDuration ==
  \A i \in 1..Len(scheduler.notifications) :
    LET n == scheduler.notifications[i] IN
      IF n.left = NoTimer THEN n.age = n.duration ELSE n.age + n.left = n.duration

\* The fields of the entries that addNotification wrote, in order.
Entries(list) ==
  [i \in 1..Len(list) |->
     [id |-> list[i].id, type |-> list[i].type, duration |-> list[i].duration]]

\* addNotification put a new entry at the end of the array and left the
\* entries before it and their order as they were; removeNotification
\* with the identifier of the new entry gives the earlier array back.
AppendedAtEnd ==
  LET before == scheduler.notifications
      after == scheduler'.notifications
      id == scheduler'.last.id
  IN /\ Len(after) = Len(before) + 1
     /\ SubSeq(Entries(after), 1, Len(before)) = Entries(before)
     /\ after[Len(after)].id = id
     /\ ~Has(before, id)
     /\ Entries(Hook_removeNotification(after, id)) = Entries(before)

\* C19 (as stated): addNotification appends the new notification at the
\* end of the array, leaves the existing notifications and their order
\* unchanged, and returns the identifier of the new notification, which
\* removeNotification accepts.
C19_AppendsAndReturnsId ==
  [][scheduler'.last.op = "addNotification" =>
       /\ AppendedAtEnd
       /\ scheduler'.last.returned = Num(scheduler'.last.id)]_vars

\* C19 (amended): addNotification appends the new notification at the end
\* of the array and leaves the existing notifications and their order
\* unchanged; it returns nothing to the caller; the identifier is the id
\* field of the new last entry, which removeNotification accepts.
C19_AppendsAndReturnsNothing ==
  [][scheduler'.last.op = "addNotification" =>
       /\ AppendedAtEnd
       /\ scheduler'.last.returned = Undefined]_vars

\* A notification was added to an array that held one already.
C19_Witness ==
  /\ scheduler.last.op = "addNotification"
  /\ Len(scheduler.notifications) >= 2
  /\ scheduler.notifications[Len(scheduler.notifications)].id = scheduler.last.id

-----------------------------------------------------------------------------
(* Properties of the checkout's totals, of its cart controls and of the    *)
(* frame of the cart operations.                                           *)

\* The checkout is rendered.
CheckoutShown == page = "checkout" /\ ~crashed

\* Unit price times quantity of a line, as a JavaScript number: a price
\* that does not coerce counts 0, and the quantity is the field as it is.
LineAmount(l) ==
  LET price == OrElse(ToNumber(l.price), Num(0))
      quantity == ToNumber(l.quantity)
  IN IF quantity.t = "NaN" THEN NaN ELSE Num(price.n * quantity.n)

RECURSIVE SumOfLines(_)
SumOfLines(cart) ==
  IF cart = <<>> THEN Num(0)
  ELSE LET rest == SumOfLines(Tail(cart))
           first == LineAmount(Head(cart))
       IN IF first.t = "NaN" \/ rest.t = "NaN" THEN NaN ELSE Num(first.n + rest.n)

\* C21: in every state of the rendered checkout the displayed subtotal is
\* the sum over the lines of its cart of unit price times quantity, the
\* displayed total is that subtotal plus the shipping of 20, and the
\* subtotal of the empty cart is 0.
C21_TotalsAreSumOfLines ==
  CheckoutShown =>
    /\ Num(subtotal(root)) = SumOfLines(root)
    /\ total(root) = subtotal(root) + Shipping
    /\ root = <<>> => subtotal(root) = 0

\* C22: increase(index) on a position of the cart raises the quantity of
\* that line by exactly 1, leaves the other lines and the order of the
\* lines as they were, stores the resulting cart and dispatches
\* "cartUpdated".
C22_IncreaseAddsOne ==
  [][(lastOp'.op = "increase" /\ lastOp'.tab = "this") =>
       LET index == lastOp'.index IN
       /\ Len(root') = Len(root)
       /\ \A j \in 1..Len(root) :
            root'[j] = IF j = index
                         THEN [root[j] EXCEPT !.quantity = Num(root[j].quantity.n + 1)]
                         ELSE root[j]
       /\ Persisted' = root'
       /\ lastOp'.saved
       /\ lastOp'.dispatched]_vars

-----------------------------------------------------------------------------
(* React takes the tree of a root down while the document stays: the       *)
(* cleanups of its effects run.  The state of the component stays as it    *)
(* was, and an order() that awaits its answer still runs to its end.       *)

Checkout_teardown ==
  /\ page = "checkout"
  /\ "Checkout" \in mounts.live
  /\ mounts' = [live |-> mounts.live \ {"Checkout"},
                listeners |-> Checkout_cleanup(mounts.listeners)]
  /\ lastOp' = Op("Checkout_teardown", "this")
  /\ UNCHANGED <<storage, page, root, badge, form, isLoading, inflight, crashed,
                 notes, redirect, scheduler, otherKeys>>

Cart_teardown ==
  /\ page # "closed"
  /\ "Cart" \in mounts.live
  /\ mounts' = [live |-> mounts.live \ {"Cart"},
                listeners |-> Cart_cleanup(mounts.listeners)]
  /\ lastOp' = Op("Cart_teardown", "this")
  /\ UNCHANGED <<storage, page, root, badge, form, isLoading, inflight, crashed,
                 notes, redirect, scheduler, otherKeys>>

NextTeardown ==
  \/ LoadIndex
  \/ LoadCheckout
  \/ \E product \in Catalog : addCart(product)
  \/ \E index \in 1..MaxCart : remove(index)
  \/ \E f \in {GoodForm} : input(f)
  \/ order
  \/ \E outcome \in Outcomes : orderSettled(outcome)
  \/ \E k \in 1..MaxNotes : removeNotification(k)
  \/ Checkout_teardown
  \/ Cart_teardown

SpecTeardown == Init /\ [][NextTeardown]_vars

LoadOps == {"loadIndex", "loadCheckout", "loadContact", "redirect"}

\* C23: a component that subscribed to "cartUpdated" is deregistered once
\* its tree is taken down: no component whose tree is gone is among the
\* listeners, a dispatch invokes the handlers of mounted components only,
\* and as long as the document stays no step changes the state of a
\* component whose tree is gone.
C23_TornDownIsDeregistered ==
  [][/\ mounts'.listeners \subseteq mounts'.live
     /\ lastOp'.heard \subseteq
          (IF lastOp'.op \in LoadOps THEN mounts'.live ELSE mounts.live)
     /\ lastOp'.op \notin LoadOps =>
          /\ (page = "checkout" /\ ~Checkout_alive /\ ~crashed) =>
               (root' = root /\ form' = form /\ notes' = notes /\ isLoading' = isLoading)
          /\ "Cart" \notin mounts.live => badge' = badge]_vars

\* An order settled after the tree of Checkout was taken down: its dispatch
\* reached the indicator alone.
C23_Witness ==
  /\ page = "checkout"
  /\ ~Checkout_alive
  /\ lastOp.op = "orderSettled"
  /\ lastOp.dispatched
  /\ lastOp.heard = {"Cart"}
  /\ root # <<>>
  /\ badge = <<>>

-----------------------------------------------------------------------------
(* Properties of buyNow and of the frame of the cart operations.           *)

\* buyNow stored the cart it set and announced it, before any timer runs.
BoughtIsStored ==
  lastOp'.op = "buyNow" =>
    /\ Persisted' = Stored(Append(lastOp'.before, lastOp'.line))
    /\ lastOp'.dispatched
    /\ badge' = Persisted'
    /\ redirect' # <<>>

\* C24 (as stated): when the timer of buyNow navigates to the checkout, the
\* slot holds the cart from before the call followed by the bought product
\* as its last line, and "cartUpdated" has been dispatched.
C24_BoughtIsLastAtRedirect ==
  [][/\ BoughtIsStored
     /\ lastOp'.op = "redirect" =>
          /\ Persisted = Stored(redirect)
          /\ badge = Persisted
          /\ storage' = storage]_vars

\* C24 (amended): buyNow stores the cart from before the call followed by
\* the bought product and dispatches "cartUpdated" at once; when its timer
\* navigates to the checkout, the slot still holds those lines in that
\* order, followed by the products added since, the indicator has read
\* that cart, and the checkout loads it.
C24_BoughtIsStoredAtRedirect ==
  [][/\ BoughtIsStored
     /\ lastOp'.op = "redirect" =>
          /\ Len(Persisted) >= Len(redirect)
          /\ SubSeq(Persisted, 1, Len(redirect)) = Stored(redirect)
          /\ badge = Persisted
          /\ storage' = storage
          /\ root' = Persisted]_vars

\* The timer of a buyNow fired after a further product was added.
C24_Witness ==
  /\ lastOp.op = "redirect"
  /\ page = "checkout"
  /\ Len(root) = 2
  /\ root = Persisted

\* The origin's storage holds keys of other scripts when the window opens.
OtherKeys == {"theme", "token"}

InitKeys ==
  /\ storage = Absent
  /\ page = "closed"
  /\ root = <<>>
  /\ badge = <<>>
  /\ form = EmptyForm
  /\ isLoading = FALSE
  /\ inflight = 0
  /\ crashed = FALSE
  /\ notes = <<>>
  /\ redirect = <<>>
  /\ lastOp = [Op("init", "this") EXCEPT !.before = <<>>]
  /\ scheduler = NoScheduler
  /\ mounts = NoMounts
  /\ otherKeys = OtherKeys

SpecKeys == InitKeys /\ [][Next]_vars

\* C25: no cart operation of the window changes a key of the storage
\* other than "cart": adding a line, remove, increase, decrease and the
\* completion of an order leave the other keys as they were.
C25_OtherKeysUntouched ==
  [][(lastOp'.tab = "this" /\ lastOp'.op \in AddOps \cup LineOps \cup {"orderSettled"})
       => otherKeys' = otherKeys]_vars

-----------------------------------------------------------------------------
(* Mounting, on a slot that holds whatever was left in it.                 *)

NextMount ==
  \/ LoadIndex
  \/ LoadCheckout
  \/ LoadContact
  \/ \E product \in Catalog : addCart(product)
  \/ \E index \in 1..MaxCart : remove(index)
  \/ \E k \in 1..MaxNotes : removeNotification(k)

SpecMount == InitStored /\ [][NextMount]_vars

\* C26: mounting changes no stored cart: whatever the slot holds, once
\* the catalog, the checkout or the contact page and its cart indicator
\* have run their mount effects, a read of the slot yields the cart it
\* yielded before; the save effect of the catalog, which first runs on its
\* initial empty cart, leaves a stored cart in place.
C26_MountKeepsStoredCart ==
  [][lastOp'.op \in LoadOps =>
       /\ Persisted' = Persisted
       /\ Products_saveEffect(<<>>, storage).storage = storage
       /\ otherKeys' = otherKeys]_vars

\* The catalog was mounted on a stored cart with lines, and wrote it back.
C26_Witness ==
  /\ lastOp.op = "loadIndex"
  /\ lastOp.dispatched
  /\ Len(Persisted) = MaxCart
  /\ root = Persisted
  /\ \E i \in 1..Len(root) : root[i].shape = "null"

====
